---- MODULE Spec2Model ----
\* Window/process association engine of xsessiond-rs: the association store
\* (src/src/info.rs), the synchronization controller (src/src/application.rs),
\* the window metadata resolver (src/src/x11_client.rs) and the signal loop
\* of main (src/src/main.rs), together with the X server and the OS process
\* table they observe.
EXTENDS Integers, Sequences, FiniteSets, TLC

\* ---------------------------------------------------------------- bounds
MaxEnvSteps == 3
MaxStoreOps == 3

\* ------------------------------------------------------ program constants
\* long_length of the GetProperty request that reads _NET_CLIENT_LIST
LongLength == 100
ConnectionErrorRetcode == 10
ProtocolErrorRetcode == 11

\* --------------------------------------------------------------- domains
Xids == {1, 2}
Pids == {100, 200}
NoPid == 0
Cmdlines == {"a", "b"}
NoProc == "<absent>"
\* a window is created without a name; its client sets one later
Unnamed == ""
Names == {Unnamed, "xterm"}
DesktopNames == <<"main">>
Desktops == 0..(Len(DesktopNames) - 1)
Screens == {0, 1}
TERM_SIGNALS == {"SIGTERM", "SIGQUIT", "SIGINT"}
Signals == {"SIGTSTP", "SIGCONT", "SIGWINCH", "SIGHUP", "SIGUSR1"} \cup TERM_SIGNALS

VARIABLES
    windows,      \* X server: resource id -> window state
    procs,        \* OS process table: pid -> command line, or NoProc
    pointer,      \* screen the pointer is on
    ewmh,         \* whether the _NET_CLIENT_LIST atom exists
    events,       \* events queued on the connection
    envSteps,     \* number of environment changes so far
    pc,           \* position of Application::run
    screen,       \* screens left to visit in the bulk sync
    clients,      \* rest of the client list being synchronized
    processes,    \* Application::processes
    result,       \* value returned by Application::run
    is_running,   \* the shared keep-running flag
    mainpc,       \* position of main's signal loop
    exit_code,    \* exit code of the process, once main has exited
    sinceFlip,    \* what run has met since the flag was set to false
    last,         \* the last window handled by the controller
    prev,         \* the one handled before it
    procinfo,     \* ProcessesWindowsInfo::procinfo
    nOps,         \* number of calls made on procinfo
    slast         \* the last call made on procinfo

envVars == <<windows, procs, pointer, ewmh, events, envSteps>>
ctlVars == <<pc, screen, clients, processes, result, last, prev>>
sigVars == <<is_running, mainpc, exit_code, sinceFlip>>
storeVars == <<procinfo, nOps, slast>>
vars == <<windows, procs, pointer, ewmh, events, envSteps, pc, screen,
          clients, processes, result, is_running, mainpc, exit_code, sinceFlip, last,
          prev,
          procinfo, nOps, slast>>

\* ------------------------------------------------------------ data model
NoWin == [exists |-> FALSE]
None == [some |-> FALSE]
Some(v) == [some |-> TRUE, v |-> v]
EmptyMap == [k \in {} |-> {}]

WindowInfoNew(name, xid, dname, dnum) ==
    [window_name |-> name, window_xid |-> xid,
     desktop_name |-> dname, desktop_number |-> dnum]

ProcessInfoNew(cmdline, process_id) ==
    [cmdline |-> cmdline, process_id |-> process_id]

X11WindowInformationNew(resource_id, name, desktop_number, desktop_name, pid) ==
    [x11_resource_id |-> resource_id, x11_window_name |-> name,
     x11_desktop_number |-> desktop_number, x11_desktop_name |-> desktop_name,
     process_id |-> pid]

\* refresh_processes followed by process(pid) and the join of its arguments
SysinfoProcess(pt, pid) ==
    IF pid \in DOMAIN pt /\ pt[pid] # NoProc
    THEN Some(ProcessInfoNew(pt[pid], pid))
    ELSE None

\* ------------------------------------------------- store of the controller
\* Application::processes: get_mut, then insert into the set or create it
ProcessesInsert(m, proc_info, window_info) ==
    IF proc_info \in DOMAIN m
    THEN [m EXCEPT ![proc_info] = @ \cup {window_info}]
    ELSE [k \in DOMAIN m \cup {proc_info} |->
            IF k = proc_info THEN {window_info} ELSE m[k]]

\* variant: the key of an emptied set is left in the map
ProcessesRemoveKeepsKey(m, proc_info, xid) ==
    IF proc_info \in DOMAIN m
    THEN [m EXCEPT ![proc_info] = {w_i \in @ : w_i.window_xid # xid}]
    ELSE m

\* variant: the whole entry of the process is removed
ProcessesRemoveDropsKey(m, proc_info, xid) ==
    IF proc_info \in DOMAIN m /\ \E w_i \in m[proc_info] : w_i.window_xid = xid
    THEN [k \in DOMAIN m \ {proc_info} |-> m[k]]
    ELSE m

\* variant: a destroyed window is never looked for
ProcessesRemoveNothing(m, proc_info, xid) == m

\* Application::processes: drop the records of that resource id, then the
\* key when its set is empty
ProcessesRemove(m, proc_info, xid) ==
    IF proc_info \in DOMAIN m
    THEN LET w_infos == {w_i \in m[proc_info] : w_i.window_xid # xid}
         IN  IF w_infos = {}
             THEN [k \in DOMAIN m \ {proc_info} |-> m[k]]
             ELSE [m EXCEPT ![proc_info] = w_infos]
    ELSE m

\* -------------------------------------------- store of ProcessesWindowsInfo
\* variant: a record that is already present is taken out again
ProcinfoInsertToggle(m, proc_info, window_info) ==
    IF proc_info \in DOMAIN m
    THEN [m EXCEPT ![proc_info] =
            IF window_info \in @ THEN @ \ {window_info} ELSE @ \cup {window_info}]
    ELSE [k \in DOMAIN m \cup {proc_info} |->
            IF k = proc_info THEN {window_info} ELSE m[k]]

\* procinfo.get_mut(&proc_info), then insert into the set or create it
ProcinfoInsert(m, proc_info, window_info) ==
    IF proc_info \in DOMAIN m
    THEN [m EXCEPT ![proc_info] = @ \cup {window_info}]
    ELSE [k \in DOMAIN m \cup {proc_info} |->
            IF k = proc_info THEN {window_info} ELSE m[k]]

\* retain the records of another resource id, remove the key of an empty set
ProcinfoRemove(m, proc_info, xid) ==
    IF proc_info \in DOMAIN m
    THEN LET windows_of_process ==
                {window_info \in m[proc_info] : window_info.window_xid # xid}
         IN  IF windows_of_process = {}
             THEN [k \in DOMAIN m \ {proc_info} |-> m[k]]
             ELSE [m EXCEPT ![proc_info] = windows_of_process]
    ELSE m

WindowInfoOf(i) ==
    WindowInfoNew(i.x11_window_name, i.x11_resource_id,
                  i.x11_desktop_name, i.x11_desktop_number)

Insert(m, x11_window_info, pt) ==
    LET process == SysinfoProcess(pt, x11_window_info.process_id) IN
    IF process.some
    THEN ProcinfoInsert(m, process.v, WindowInfoOf(x11_window_info))
    ELSE m

Remove(m, x11_window_info, pt) ==
    LET process == SysinfoProcess(pt, x11_window_info.process_id) IN
    IF process.some
    THEN ProcinfoRemove(m, process.v, x11_window_info.x11_resource_id)
    ELSE m

\* ------------------------------------------------ window metadata resolver
\* ws is the X server when the desktop index is queried, ws2 the X server
\* when the name, the desktop names and the client id are queried.
GetDesktopNumberOfWindow(ws, w) ==
    IF ws[w].exists THEN [tag |-> "Ok", v |-> ws[w].desktop] ELSE [tag |-> "Err"]

GetWindowName(ws2, w) ==
    IF ws2[w].exists THEN [tag |-> "Ok", v |-> ws2[w].name] ELSE [tag |-> "Panic"]

GetDesktopNameOfWindow(number) ==
    IF number + 1 \in DOMAIN DesktopNames
    THEN [tag |-> "Ok", v |-> DesktopNames[number + 1]]
    ELSE [tag |-> "Panic"]

GetProcessIdOfLocalClient(ws2, w) ==
    IF ws2[w].exists /\ ws2[w].pid # NoPid
    THEN [tag |-> "Ok", v |-> ws2[w].pid]
    ELSE [tag |-> "Panic"]

GetWindowInformation(ws, ws2, w) ==
    LET desktop_number == GetDesktopNumberOfWindow(ws, w) IN
    IF desktop_number.tag = "Err" THEN [tag |-> "Err"]
    ELSE LET name == GetWindowName(ws2, w)
             dname == GetDesktopNameOfWindow(desktop_number.v)
             pid == GetProcessIdOfLocalClient(ws2, w)
         IN  IF name.tag = "Panic" \/ dname.tag = "Panic" \/ pid.tag = "Panic"
             THEN [tag |-> "Panic"]
             ELSE [tag |-> "Ok",
                   info |-> X11WindowInformationNew(w, name.v, desktop_number.v,
                                                    dname.v, pid.v)]

\* --------------------------------------------------- handlers of one window
\* variant: a window whose process is gone is filed under an empty command line
SetWindowInformationNoSkip(m, x11_wininfo, pt) ==
    IF x11_wininfo.tag # "Ok"
    THEN [res |-> "panic", ident |-> None, map |-> m]
    ELSE LET i == x11_wininfo.info
             process == SysinfoProcess(pt, i.process_id)
             window_info == WindowInfoNew(i.x11_window_name, i.x11_resource_id,
                                          i.x11_desktop_name, i.x11_desktop_number)
         IN  IF process.some
             THEN [res |-> "inserted", ident |-> process,
                   map |-> ProcessesInsert(m, process.v, window_info)]
             ELSE [res |-> "noproc", ident |-> None,
                   map |-> ProcessesInsert(m, ProcessInfoNew("", i.process_id),
                                           window_info)]

\* The Result of get_window_information is used as the value itself: there
\* is no Err arm, so a failed resolution leaves the handler by a panic.
SetWindowInformation(m, x11_wininfo, pt) ==
    IF x11_wininfo.tag # "Ok"
    THEN [res |-> "panic", ident |-> None, map |-> m]
    ELSE LET i == x11_wininfo.info
             process == SysinfoProcess(pt, i.process_id)
         IN  IF process.some
             THEN [res |-> "inserted", ident |-> process,
                   map |-> ProcessesInsert(m, process.v,
                             WindowInfoNew(i.x11_window_name, i.x11_resource_id,
                                           i.x11_desktop_name, i.x11_desktop_number))]
             ELSE [res |-> "noproc", ident |-> None, map |-> m]

DeleteWindowInformation(m, x11_wininfo, pt, xid) ==
    IF x11_wininfo.tag # "Ok"
    THEN [res |-> "panic", ident |-> None, map |-> m]
    ELSE LET process == SysinfoProcess(pt, x11_wininfo.info.process_id)
         IN  IF process.some
             THEN [res |-> IF process.v \in DOMAIN m THEN "removed" ELSE "nokey",
                   ident |-> process,
                   map |-> ProcessesRemove(m, process.v, xid)]
             ELSE [res |-> "noproc", ident |-> None, map |-> m]

Panics(res) == res = "panic"

\* ------------------------------------------------------------ environment
\* the process lives until run has returned or a thread has panicked; the
\* world is observed only while it lives, and not between the end of a
\* handler and the read of the flag, where run reads nothing of it
Alive == pc \notin {"terminated", "panicked", "check"} /\ mainpc # "panicked"

RECURSIVE SeqOfSet(_)
SeqOfSet(S) ==
    IF S = {} THEN <<>>
    ELSE LET x == CHOOSE y \in S : \A z \in S : y <= z
         IN  <<x>> \o SeqOfSet(S \ {x})

Event(type, window) == [type |-> type, window |-> window]

IsLive(ws, x) == ws[x].exists /\ ws[x].live

\* the connection queues events once run has passed its start-up check
Queued(ev) == IF pc = "init" THEN events ELSE Append(events, ev)

CreateWindow(x, desktop, pid, scr) ==
    /\ Alive /\ envSteps < MaxEnvSteps
    /\ ~IsLive(windows, x)
    /\ pid # NoPid => procs[pid] # NoProc
    /\ windows' = [windows EXCEPT ![x] =
            [exists |-> TRUE, live |-> TRUE, name |-> Unnamed, desktop |-> desktop,
             pid |-> pid, screen |-> scr]]
    /\ events' = Queued(Event("CreateNotify", x))
    /\ envSteps' = envSteps + 1
    /\ UNCHANGED <<procs, pointer, ewmh, ctlVars, sigVars, storeVars>>

\* a destroyed window may keep answering queries with its last-known state
DestroyWindow(x, lingers) ==
    /\ Alive /\ envSteps < MaxEnvSteps
    /\ IsLive(windows, x)
    /\ windows' = [windows EXCEPT ![x] =
            IF lingers THEN [@ EXCEPT !.live = FALSE] ELSE NoWin]
    /\ events' = Queued(Event("DestroyNotify", x))
    /\ envSteps' = envSteps + 1
    /\ UNCHANGED <<procs, pointer, ewmh, ctlVars, sigVars, storeVars>>

ForgetWindow(x) ==
    /\ Alive /\ envSteps < MaxEnvSteps
    /\ windows[x].exists /\ ~windows[x].live
    /\ windows' = [windows EXCEPT ![x] = NoWin]
    /\ envSteps' = envSteps + 1
    /\ UNCHANGED <<procs, pointer, ewmh, events, ctlVars, sigVars, storeVars>>

RenameWindow(x, name) ==
    /\ Alive /\ envSteps < MaxEnvSteps
    /\ IsLive(windows, x)
    /\ windows[x].name # name
    /\ windows' = [windows EXCEPT ![x].name = name]
    /\ events' = Queued(Event("PropertyNotify", x))
    /\ envSteps' = envSteps + 1
    /\ UNCHANGED <<procs, pointer, ewmh, ctlVars, sigVars, storeVars>>

\* a process starts, exits, or replaces its command line
ProcessTableChange(pid, v) ==
    /\ Alive /\ envSteps < MaxEnvSteps
    /\ procs[pid] # v
    /\ procs' = [procs EXCEPT ![pid] = v]
    /\ envSteps' = envSteps + 1
    /\ UNCHANGED <<windows, pointer, ewmh, events, ctlVars, sigVars, storeVars>>

\* ------------------------------------------------------------- controller
\* Application::run, on the thread main spawns; a panic of main ends the
\* process and this thread with it
\* what the controller did with one window: the handler, the window, the tag
\* of the metadata resolution, the outcome, the identity resolved and the
\* store before the handler ran
NoOp == [kind |-> "none", win |-> 0, meta |-> "none", res |-> "none",
         ident |-> None, pre |-> EmptyMap]
Op(kind, win, meta, out, pre) ==
    [kind |-> kind, win |-> win, meta |-> meta, res |-> out.res,
     ident |-> out.ident, pre |-> pre]

\* prev remembers the last window when it was a create that inserted
Before(op) == IF op.kind = "create" /\ op.res = "inserted" THEN op ELSE NoOp

\* an event has been delivered to run; it counts once the flag is false
Served == IF sinceFlip = "unset" THEN "unset" ELSE "served"

Take(s, n) == IF Len(s) <= n THEN s ELSE SubSeq(s, 1, n)

\* the value of _NET_CLIENT_LIST on the root of screen scr, long_length words
ClientList(ws, scr) ==
    Take(SeqOfSet({x \in Xids : IsLive(ws, x) /\ ws[x].screen = scr}), LongLength)

\* the window may go away between the desktop-index query and the later ones
MidResolution(w, vanishes, ws2) ==
    IF vanishes
    THEN /\ envSteps < MaxEnvSteps
         /\ windows[w].exists
         /\ ws2 = [windows EXCEPT ![w] = NoWin]
         /\ events' = IF windows[w].live
                      THEN Append(events, Event("DestroyNotify", w))
                      ELSE events
         /\ envSteps' = envSteps + 1
    ELSE /\ ws2 = windows
         /\ events' = events
         /\ envSteps' = envSteps

\* variant: run goes to its event loop without the bulk sync
RunStartSkipsSync ==
    /\ mainpc # "panicked"
    /\ pc = "init"
    /\ pc' = IF ewmh THEN "check" ELSE "panicked"
    /\ UNCHANGED <<envVars, screen, clients, processes, result, last, prev, sigVars,
                   storeVars>>

RunStart ==
    /\ mainpc # "panicked"
    /\ pc = "init"
    /\ IF ewmh
       THEN pc' = "bulk" /\ screen' = SeqOfSet(Screens)
       ELSE pc' = "panicked" /\ screen' = screen
    /\ UNCHANGED <<envVars, clients, processes, result, last, prev, sigVars, storeVars>>

RunNextScreen ==
    /\ mainpc # "panicked"
    /\ pc = "bulk" /\ clients = <<>> /\ screen # <<>>
    /\ clients' = IF pointer = Head(screen) THEN ClientList(windows, Head(screen)) ELSE <<>>
    /\ screen' = Tail(screen)
    /\ UNCHANGED <<envVars, pc, processes, result, last, prev, sigVars, storeVars>>

RunSyncClient(vanishes) ==
    /\ mainpc # "panicked"
    /\ pc = "bulk" /\ clients # <<>>
    /\ \E ws2 \in {windows, [windows EXCEPT ![Head(clients)] = NoWin]} :
        /\ MidResolution(Head(clients), vanishes, ws2)
        /\ LET x11_wininfo == GetWindowInformation(windows, ws2, Head(clients))
               out == SetWindowInformation(processes, x11_wininfo, procs)
           IN  /\ processes' = out.map
               /\ pc' = IF Panics(out.res) THEN "panicked" ELSE pc
               /\ last' = Op("sync", Head(clients), x11_wininfo.tag, out, processes)
               /\ prev' = Before(last)
        /\ windows' = ws2
    /\ clients' = Tail(clients)
    /\ UNCHANGED <<procs, pointer, ewmh, screen, result, sigVars, storeVars>>

RunSyncDone ==
    /\ mainpc # "panicked"
    /\ pc = "bulk" /\ clients = <<>> /\ screen = <<>>
    /\ pc' = "check"
    /\ UNCHANGED <<envVars, screen, clients, processes, result, last, prev, sigVars, storeVars>>

\* variant: the flag is also read while run waits for an event
RunCheckRunningPolls ==
    /\ mainpc # "panicked"
    /\ pc \in {"check", "wait"}
    /\ IF is_running
       THEN pc' = "wait" /\ result' = result
       ELSE pc' = "terminated" /\ result' = [tag |-> "Ok", retcode |-> 0]
    /\ UNCHANGED <<envVars, screen, clients, processes, last, prev, sigVars, storeVars>>

RunCheckRunning ==
    /\ mainpc # "panicked"
    /\ pc = "check"
    /\ IF is_running
       THEN pc' = "wait" /\ result' = result
       ELSE pc' = "terminated" /\ result' = [tag |-> "Ok", retcode |-> 0]
    /\ UNCHANGED <<envVars, screen, clients, processes, last, prev, sigVars, storeVars>>

RunCreateNotify(vanishes) ==
    /\ mainpc # "panicked"
    /\ pc = "wait" /\ events # <<>> /\ Head(events).type = "CreateNotify"
    /\ LET window == Head(events).window IN
       \E ws2 \in {windows, [windows EXCEPT ![window] = NoWin]} :
        /\ IF vanishes
           THEN /\ envSteps < MaxEnvSteps
                /\ windows[window].exists
                /\ ws2 = [windows EXCEPT ![window] = NoWin]
                /\ events' = IF windows[window].live
                             THEN Append(Tail(events), Event("DestroyNotify", window))
                             ELSE Tail(events)
                /\ envSteps' = envSteps + 1
           ELSE /\ ws2 = windows
                /\ events' = Tail(events)
                /\ envSteps' = envSteps
        /\ LET x11_wininfo == GetWindowInformation(windows, ws2, window)
               out == SetWindowInformation(processes, x11_wininfo, procs)
           IN  /\ processes' = out.map
               /\ pc' = IF Panics(out.res) THEN "panicked" ELSE "check"
               /\ last' = Op("create", window, x11_wininfo.tag, out, processes)
               /\ prev' = Before(last)
        /\ windows' = ws2
    /\ sinceFlip' = Served
    /\ UNCHANGED <<procs, pointer, ewmh, screen, clients, result, is_running, mainpc, exit_code,
                   storeVars>>

RunDestroyNotify(vanishes) ==
    /\ mainpc # "panicked"
    /\ pc = "wait" /\ events # <<>> /\ Head(events).type = "DestroyNotify"
    /\ LET window == Head(events).window IN
       \E ws2 \in {windows, [windows EXCEPT ![window] = NoWin]} :
        /\ IF vanishes
           THEN /\ envSteps < MaxEnvSteps
                /\ windows[window].exists
                /\ ws2 = [windows EXCEPT ![window] = NoWin]
                /\ events' = IF windows[window].live
                             THEN Append(Tail(events), Event("DestroyNotify", window))
                             ELSE Tail(events)
                /\ envSteps' = envSteps + 1
           ELSE /\ ws2 = windows
                /\ events' = Tail(events)
                /\ envSteps' = envSteps
        /\ LET x11_wininfo == GetWindowInformation(windows, ws2, window)
               out == DeleteWindowInformation(processes, x11_wininfo, procs, window)
           IN  /\ processes' = out.map
               /\ pc' = IF Panics(out.res) THEN "panicked" ELSE "check"
               /\ last' = Op("destroy", window, x11_wininfo.tag, out, processes)
               /\ prev' = Before(last)
        /\ windows' = ws2
    /\ sinceFlip' = Served
    /\ UNCHANGED <<procs, pointer, ewmh, screen, clients, result, is_running, mainpc, exit_code,
                   storeVars>>

\* variant: a property change refreshes the record of its window
RunOtherEventRefreshes ==
    /\ mainpc # "panicked"
    /\ pc = "wait" /\ events # <<>> /\ Head(events).type = "PropertyNotify"
    /\ events' = Tail(events)
    /\ LET window == Head(events).window
           x11_wininfo == GetWindowInformation(windows, windows, window)
           out == SetWindowInformation(processes, x11_wininfo, procs)
       IN  /\ processes' = out.map
           /\ pc' = IF Panics(out.res) THEN "panicked" ELSE "check"
           /\ last' = [NoOp EXCEPT !.kind = "other", !.win = window, !.pre = processes]
    /\ prev' = Before(last)
    /\ sinceFlip' = Served
    /\ UNCHANGED <<windows, procs, pointer, ewmh, envSteps, screen, clients,
                   result, is_running, mainpc, exit_code,
                   storeVars>>

RunOtherEvent ==
    /\ mainpc # "panicked"
    /\ pc = "wait" /\ events # <<>> /\ Head(events).type = "PropertyNotify"
    /\ events' = Tail(events)
    /\ pc' = "check"
    /\ last' = [NoOp EXCEPT !.kind = "other", !.win = Head(events).window, !.pre = processes]
    /\ prev' = Before(last)
    /\ sinceFlip' = Served
    /\ UNCHANGED <<windows, procs, pointer, ewmh, envSteps, screen, clients,
                   processes, result, is_running, mainpc, exit_code,
                   storeVars>>

\* wait_for_event returns a connection or a protocol error
\* variant: run clears the flag itself when the wait fails
RunWaitErrorClearsFlag(type) ==
    /\ mainpc # "panicked"
    /\ pc = "wait"
    /\ pc' = "terminated"
    /\ result' = [tag |-> "Err",
                  retcode |-> IF type = "ConnectionError"
                              THEN ConnectionErrorRetcode ELSE ProtocolErrorRetcode]
    /\ is_running' = FALSE
    /\ UNCHANGED <<envVars, screen, clients, processes, last, prev, mainpc, exit_code,
                   sinceFlip, storeVars>>

RunWaitError(type) ==
    /\ mainpc # "panicked"
    /\ pc = "wait"
    /\ pc' = "terminated"
    /\ result' = [tag |-> "Err",
                  retcode |-> IF type = "ConnectionError"
                              THEN ConnectionErrorRetcode ELSE ProtocolErrorRetcode]
    /\ UNCHANGED <<envVars, screen, clients, processes, last, prev, sigVars, storeVars>>

\* ------------------------------------------------------------ signal loop
\* the single arm of the match binds every subscribed signal
SignalLoop(sig) ==
    /\ mainpc = "signals"
    /\ is_running' = FALSE
    /\ mainpc' = IF sig \in TERM_SIGNALS THEN "join" ELSE "panicked"
    /\ sinceFlip' = IF pc = "wait" THEN "waiting" ELSE "early"
    /\ UNCHANGED <<envVars, ctlVars, exit_code, storeVars>>

\* after the signal loop: join the daemon thread and exit with what run returned;
\* the unwrap of the join panics when the daemon thread has panicked
MainJoin ==
    /\ mainpc = "join"
    /\ pc \in {"terminated", "panicked"}
    /\ IF pc = "panicked"
       THEN mainpc' = "aborted" /\ exit_code' = exit_code
       ELSE /\ mainpc' = "exited"
            /\ exit_code' = Some(IF result.tag = "Ok" THEN 0 ELSE result.retcode)
    /\ UNCHANGED <<envVars, ctlVars, is_running, sinceFlip, storeVars>>

\* ---------------------------------------------------------- specification
Init ==
    /\ windows = [x \in Xids |-> NoWin]
    /\ procs \in {[pid \in Pids |-> "a"]}
    /\ pointer = 0
    /\ ewmh \in BOOLEAN
    /\ events = <<>>
    /\ envSteps = 0
    /\ pc = "init"
    /\ screen = <<>>
    /\ clients = <<>>
    /\ processes = EmptyMap
    /\ result = [tag |-> "None"]
    /\ is_running = TRUE
    /\ mainpc = "signals"
    /\ exit_code = None
    /\ sinceFlip = "unset"
    /\ last = NoOp
    /\ prev = NoOp
    /\ procinfo = EmptyMap
    /\ nOps = 0
    /\ slast = [kind |-> "none", info |-> None, ident |-> None, pre |-> EmptyMap]

Environment ==
    \/ \E x \in Xids, desktop \in Desktops, pid \in Pids \cup {NoPid}, scr \in Screens :
            CreateWindow(x, desktop, pid, scr)
    \/ \E x \in Xids, lingers \in BOOLEAN : DestroyWindow(x, lingers)
    \/ \E x \in Xids : ForgetWindow(x)
    \/ \E x \in Xids, name \in Names : RenameWindow(x, name)
    \/ \E pid \in Pids, v \in Cmdlines \cup {NoProc} : ProcessTableChange(pid, v)

Run ==
    \/ RunStart
    \/ RunNextScreen
    \/ \E vanishes \in BOOLEAN : RunSyncClient(vanishes)
    \/ RunSyncDone
    \/ RunCheckRunning
    \/ \E vanishes \in BOOLEAN : RunCreateNotify(vanishes)
    \/ \E vanishes \in BOOLEAN : RunDestroyNotify(vanishes)
    \/ RunOtherEvent
    \/ \E type \in {"ConnectionError", "ProtocolError"} : RunWaitError(type)

Next ==
    \/ Environment
    \/ Run
    \/ \E sig \in Signals : SignalLoop(sig)
    \/ MainJoin

Spec == Init /\ [][Next]_vars

\* ------------------------------------------- calls on ProcessesWindowsInfo
X11WindowInformations ==
    {X11WindowInformationNew(xid, name, dnum, DesktopNames[dnum + 1], pid) :
        xid \in Xids, name \in Names, dnum \in Desktops, pid \in Pids}

SOp(kind, info, pt, pre) ==
    [kind |-> kind, info |-> info, ident |-> SysinfoProcess(pt, info.process_id),
     pre |-> pre]

StoreInsert(info) ==
    /\ nOps < MaxStoreOps
    /\ procinfo' = Insert(procinfo, info, procs)
    /\ slast' = SOp("insert", info, procs, procinfo)
    /\ nOps' = nOps + 1
    /\ UNCHANGED <<envVars, ctlVars, sigVars>>

StoreRemove(info) ==
    /\ nOps < MaxStoreOps
    /\ procinfo' = Remove(procinfo, info, procs)
    /\ slast' = SOp("remove", info, procs, procinfo)
    /\ nOps' = nOps + 1
    /\ UNCHANGED <<envVars, ctlVars, sigVars>>

NextStore ==
    \/ \E info \in X11WindowInformations : StoreInsert(info)
    \/ \E info \in X11WindowInformations : StoreRemove(info)
    \/ \E pid \in Pids, v \in Cmdlines \cup {NoProc} : ProcessTableChange(pid, v)

SpecStore == Init /\ [][NextStore]_vars

\* ================================================================ claims
Owners(m, xid) == {k \in DOMAIN m : \E w \in m[k] : w.window_xid = xid}
Untracked(m, xid) == Owners(m, xid) = {}
RecordsOf(m, k, xid) == {w \in m[k] : w.window_xid = xid}

\* C1: every key of the controller's store maps to a non-empty window set,
\* and a destroy that removes the last windows of a process removes its key.
C1_NoEmptyWindowSet ==
    /\ \A k \in DOMAIN processes : processes[k] # {}
    /\ (last.kind = "destroy" /\ last.res = "removed"
            /\ \A w \in last.pre[last.ident.v] : w.window_xid = last.win)
        => last.ident.v \notin DOMAIN processes

C1_Witness ==
    /\ last.kind = "destroy" /\ last.res = "removed"
    /\ last.ident.v \in DOMAIN last.pre
    /\ last.ident.v \notin DOMAIN processes

\* C2: a resource id appears in the window set of at most one process
\* identity of the controller's store.
C2_NoDoubleOwnership ==
    \A x \in Xids : Cardinality(Owners(processes, x)) <= 1

\* C3: no window set of ProcessesWindowsInfo holds two records with the same
\* resource id.
C3_ResourceIdIsKey ==
    \A k \in DOMAIN procinfo : \A w1, w2 \in procinfo[k] :
        w1.window_xid = w2.window_xid => w1 = w2

\* C4: inserting a record for a process identity a second time yields the
\* store obtained by inserting it once.
C4_IdempotentInsert ==
    (slast.kind = "insert" /\ slast.ident.some) =>
        LET w == WindowInfoOf(slast.info)
            once == ProcinfoInsert(slast.pre, slast.ident.v, w)
        IN  /\ procinfo = once
            /\ ProcinfoInsert(once, slast.ident.v, w) = once

C4_Witness ==
    /\ slast.kind = "insert" /\ slast.ident.some
    /\ slast.ident.v \in DOMAIN slast.pre
    /\ WindowInfoOf(slast.info) \in slast.pre[slast.ident.v]
    /\ procinfo = slast.pre

\* C5: a destroy changes the store only by deleting the records of that
\* resource id from the resolved process's set (and the key of an emptied
\* set); when the process is no key or holds no such window, nothing changes.
C5_RemoveFrame ==
    (last.kind = "destroy" /\ last.meta = "Ok") =>
        IF last.ident.some /\ last.ident.v \in DOMAIN last.pre
              /\ RecordsOf(last.pre, last.ident.v, last.win) # {}
        THEN LET P == last.ident.v
                 rest == last.pre[P] \ RecordsOf(last.pre, P, last.win)
             IN  /\ DOMAIN processes \subseteq DOMAIN last.pre
                 /\ \A k \in DOMAIN last.pre \ {P} :
                        k \in DOMAIN processes /\ processes[k] = last.pre[k]
                 /\ IF rest = {} THEN P \notin DOMAIN processes
                    ELSE P \in DOMAIN processes /\ processes[P] = rest
        ELSE processes = last.pre

C5_Witness ==
    /\ last.kind = "destroy" /\ last.res = "removed"
    /\ last.ident.v \in DOMAIN processes
    /\ processes[last.ident.v] # last.pre[last.ident.v]
    /\ \E w \in processes[last.ident.v] : w.window_xid # last.win

\* C6: a window whose metadata resolves but whose process is absent from the
\* process table is skipped: the store is unchanged and the controller runs on.
C6_SkipOnMissingProcess ==
    (last.kind \in {"sync", "create"} /\ last.meta = "Ok" /\ ~last.ident.some) =>
        /\ processes = last.pre
        /\ pc # "panicked"

C6_Witness ==
    /\ last.kind \in {"sync", "create"} /\ last.meta = "Ok" /\ last.res = "noproc"
    /\ last.pre # EmptyMap
    /\ pc = "wait"

\* C7: at the end of a bulk sync during which no window came or went, every
\* live window whose metadata and process identity resolve is held in the
\* store under a key of its owner.
C7_BulkSyncComplete ==
    (pc = "check" /\ last.kind \in {"none", "sync"} /\ events = <<>>) =>
        \A x \in Xids :
            (/\ IsLive(windows, x)
             /\ GetWindowInformation(windows, windows, x).tag = "Ok"
             /\ SysinfoProcess(procs, windows[x].pid).some)
            => \E k \in Owners(processes, x) : k.process_id = windows[x].pid

\* C8: a window of the bulk sync whose desktop index is unavailable is
\* skipped: the store is unchanged and the controller does not abort.
C8_SkipOnDesktopIndexUnavailable ==
    (last.kind = "sync" /\ last.meta = "Err") =>
        /\ processes = last.pre
        /\ pc # "panicked"

\* C9: a create event of an untracked window followed by the destroy event
\* of the same window, both resolved to the same process identity, leaves
\* the store as it was before the create event.
C9_CreateDestroyRoundTrip ==
    (/\ prev.kind = "create" /\ prev.res = "inserted"
     /\ Untracked(prev.pre, prev.win)
     /\ last.kind = "destroy" /\ last.win = prev.win
     /\ last.ident = prev.ident)
    => processes = prev.pre

C9_Witness ==
    /\ prev.kind = "create" /\ prev.res = "inserted"
    /\ Untracked(prev.pre, prev.win)
    /\ last.kind = "destroy" /\ last.win = prev.win
    /\ last.ident = prev.ident
    /\ last.pre # prev.pre
    /\ processes = prev.pre

\* C10: a destroy event whose metadata or process identity cannot be resolved
\* leaves the store unchanged and does not crash the controller.
C10_DestroyRace ==
    (last.kind = "destroy" /\ (last.meta = "Err" \/ ~last.ident.some)) =>
        /\ processes = last.pre
        /\ pc # "panicked"

\* C11: once the flag is false, an event delivered to the waiting controller
\* brings it back to the loop head, where it returns Ok(0); after it has
\* returned no event is processed and the store does not change.
C11_Shutdown ==
    [][/\ (pc = "wait" /\ ~is_running /\ events # <<>> /\ events' # events
              /\ pc' # pc) => pc' = "check"
       /\ (pc = "check" /\ ~is_running /\ pc' # pc)
              => (pc' = "terminated" /\ result' = [tag |-> "Ok", retcode |-> 0])
       /\ pc = "terminated" => UNCHANGED <<pc, result, processes, events, last>>]_vars

\* C12: a failure of the wait for the next event moves run to its return
\* without processing an event or changing the store, and success, connection
\* failure, protocol failure and unsupported environment are returned with
\* pairwise distinct codes, the failures with non-zero ones.
C12_FailureStatuses ==
    [][/\ (pc = "wait" /\ pc' = "terminated")
              => /\ result'.tag = "Err"
                 /\ result'.retcode \in {ConnectionErrorRetcode, ProtocolErrorRetcode}
                 /\ ConnectionErrorRetcode # ProtocolErrorRetcode
                 /\ 0 \notin {ConnectionErrorRetcode, ProtocolErrorRetcode}
                 /\ UNCHANGED <<processes, events, last>>
       /\ (pc = "init" /\ ~ewmh /\ pc' # pc)
              => /\ pc' = "terminated"
                 /\ result'.tag = "Err"
                 /\ result'.retcode \notin
                        {0, ConnectionErrorRetcode, ProtocolErrorRetcode}]_vars

\* C13: without the window-list capability run returns a fatal status before
\* any window is enumerated: the store stays empty and neither the bulk sync
\* nor the event loop is entered.
C13_ProtocolUnsupported ==
    (~ewmh /\ pc # "init") =>
        /\ pc = "terminated"
        /\ result.tag = "Err"
        /\ processes = EmptyMap
        /\ last.kind = "none"

\* C14: once the destroy event of a window has been handled, no window set of
\* the store holds a record of that window.
C14_NoStaleEntries ==
    (last.kind = "destroy" /\ last.res # "panic") => Untracked(processes, last.win)

\* C15: a window that is destroyed before the end of its metadata resolution,
\* or whose process has exited before the identity resolution, is skipped:
\* the store is unchanged and the controller does not abort.
C15_ExpectedRacesSkipped ==
    (/\ last.kind \in {"sync", "create", "destroy"}
     /\ \/ last.meta \in {"Err", "Panic"} /\ ~windows[last.win].exists
        \/ last.meta = "Ok" /\ ~last.ident.some)
    => (processes = last.pre /\ pc # "panicked")

\* C16, as stated: run never returns Ok(0) unless an event was delivered to it
\* after the flag was set to false.
C16_NoShutdownWithoutEvent ==
    (pc = "terminated" /\ result.tag = "Ok") => sinceFlip = "served"

\* C16, amended: the flag is read only at the loop head; a flag set to false
\* while run waits for an event is not observed before an event is delivered
\* (a flag set before the loop head is reached is observed without one).
C16_FlagReadAtLoopHead ==
    (pc = "terminated" /\ result.tag = "Ok") => sinceFlip \in {"early", "served"}

C16_Witness ==
    pc = "terminated" /\ result.tag = "Ok" /\ sinceFlip = "served"

\* Event traffic that does not stop: whenever run waits on an empty queue,
\* the server delivers one more event (a property change of the root window).
Root == 0

DeliverEvent ==
    /\ Alive
    /\ pc = "wait" /\ events = <<>>
    /\ events' = <<Event("PropertyNotify", Root)>>
    /\ UNCHANGED <<windows, procs, pointer, ewmh, envSteps, ctlVars, sigVars, storeVars>>

\* The steps run takes by itself: every step except the failure of the wait,
\* which is the server's doing.
RunProgress ==
    \/ RunStart
    \/ RunNextScreen
    \/ \E vanishes \in BOOLEAN : RunSyncClient(vanishes)
    \/ RunSyncDone
    \/ RunCheckRunning
    \/ \E vanishes \in BOOLEAN : RunCreateNotify(vanishes)
    \/ \E vanishes \in BOOLEAN : RunDestroyNotify(vanishes)
    \/ RunOtherEvent

NextLive ==
    \/ Next
    \/ DeliverEvent

\* The daemon thread and main are scheduled, and events keep being delivered;
\* nothing is assumed about signals.
SpecLive ==
    /\ Init
    /\ [][NextLive]_vars
    /\ WF_vars(RunProgress)
    /\ WF_vars(DeliverEvent)
    /\ WF_vars(MainJoin)

\* C17: under event traffic that does not stop, a false flag leads to the
\* return of run.
C17_ShutdownLiveness ==
    ~is_running ~> pc = "terminated"

\* C18: the positions of run are visited in the order start-up, bulk sync,
\* event loop, return (a fatal failure ends run from any of them), events are
\* processed only in the event loop, and the end of run is absorbing.
StateOrder ==
    {<<"init", "bulk">>, <<"init", "panicked">>, <<"bulk", "check">>,
     <<"bulk", "panicked">>, <<"check", "wait">>, <<"check", "terminated">>,
     <<"wait", "check">>, <<"wait", "terminated">>, <<"wait", "panicked">>}

C18_StateOrder ==
    [][/\ pc' # pc => <<pc, pc'>> \in StateOrder
       /\ pc \in {"init", "bulk"} => last.kind \in {"none", "sync"}
       /\ (last' # last /\ last'.kind \in {"create", "destroy", "other"}) => pc = "wait"
       /\ pc \in {"terminated", "panicked"}
              => UNCHANGED <<pc, processes, result, last>>]_vars

C18_Witness ==
    /\ pc = "terminated" /\ result.tag = "Ok"
    /\ last.kind \in {"create", "destroy"}
    /\ processes # EmptyMap

\* C19: an event that is neither a create nor a destroy notification leaves
\* the store unchanged and brings the controller back to the loop head.
C19_OtherEventsFrame ==
    [][(/\ pc = "wait" /\ events # <<>>
        /\ Head(events).type \notin {"CreateNotify", "DestroyNotify"}
        /\ events' = Tail(events))
       => (processes' = processes /\ pc' = "check")]_vars

C19_Witness ==
    /\ last.kind = "other" /\ pc = "check"
    /\ \E k \in Owners(processes, last.win) : processes[k] # {}
    /\ windows[last.win].exists /\ windows[last.win].name # Unnamed
    /\ processes = last.pre

\* C20: a window for which the client-id query returns no id is skipped: the
\* store is unchanged and the controller does not abort.
C20_NoClientIdSkipped ==
    (/\ last.kind \in {"sync", "create", "destroy"}
     /\ last.meta = "Panic"
     /\ windows[last.win].exists /\ windows[last.win].pid = NoPid)
    => (processes = last.pre /\ pc # "panicked")

\* C21: the flag is the only state the two threads share: it starts true, it
\* is written only by main's signal loop and only from true to false, every
\* step of main leaves the state of run and the store unchanged, and every
\* step of run leaves the flag unchanged.
C21_FlagOwnership ==
    [][/\ (pc = "init" /\ mainpc = "signals") => is_running
       /\ is_running' # is_running
              => (is_running /\ ~is_running' /\ mainpc = "signals" /\ mainpc' # mainpc)
       /\ mainpc' # mainpc
              => UNCHANGED <<pc, screen, clients, processes, result, events, storeVars>>
       /\ <<pc, screen, clients, processes, result>>' # <<pc, screen, clients, processes, result>>
              => (is_running' = is_running /\ mainpc' = mainpc)]_vars

C21_Witness ==
    /\ ~is_running /\ mainpc = "exited"
    /\ result.tag = "Ok" /\ processes # EmptyMap

\* C22: once run has returned a connection or protocol failure, the process
\* eventually exits with that failure's code, whether or not a signal is
\* delivered; and it exits with 0 exactly when run returned success.
C22_FailurePropagates ==
    /\ [](mainpc = "exited" => ((exit_code = Some(0)) <=> (result.tag = "Ok")))
    /\ (pc = "terminated" /\ result.tag = "Err")
           ~> (mainpc = "exited" /\ exit_code = Some(result.retcode))

\* C23: the flag is set to false by a termination signal only, and the
\* assertion on the signal that set it never fails (main is at "panicked"
\* exactly when that assertion has failed).
C23_OnlyTermSignalStops ==
    ~is_running => mainpc # "panicked"

====
